---- MODULE Spec2Model ----
(***************************************************************************)
(* Model of create_user_from_txt.py: a linear provisioning pipeline        *)
(*   parse_txt -> load_creds -> create_user -> trigger_password_reset      *)
(*             -> send_custom_welcome_email                                *)
(* driven by main().                                                       *)
(*                                                                         *)
(* Text is a sequence of tokens.  The tokens " " and "\n" are whitespace,  *)
(* "#" is the comment marker, ":" the separator; every other token stands  *)
(* for a non-empty run of ordinary characters (a word such as              *)
(* "primaryEmail" or "a@x.com").  A Python str is such a sequence, the     *)
(* empty str is <<>>.                                                      *)
(***************************************************************************)
EXTENDS Integers, Sequences, FiniteSets, TLC

VARIABLES
    environ,        \* os.environ: TXT_FILE, TOKEN_JSON, EMAIL_SMTP_USER, EMAIL_SMTP_PASS
    fs,             \* file system: the input file and the template files
    pc,             \* position of main()
    user_info,      \* main: parsed mapping (key text -> value text)
    creds,          \* main: result of load_creds
    primary_email,  \* main: first result of create_user
    temp_password,  \* main: second result of create_user
    reset_success,  \* main: result of trigger_password_reset
    calls,          \* remote calls made so far, in order
    submitted,      \* request bodies handed to users().insert, in order
    sent,           \* messages handed to server.sendmail that were transmitted
    log             \* logger output, in order

vars == <<environ, fs, pc, user_info, creds, primary_email, temp_password,
          reset_success, calls, submitted, sent, log>>

----------------------------------------------------------------------------
(* Bounds *)

\* Longest input text (in tokens) explored for the parser.
MaxFileLen == 7

\* Number of distinct values random.choices may produce for the password.
NumPasswords == 2

----------------------------------------------------------------------------
(* Python str helpers *)

\* Python None where a str is expected; no text of the model contains this token.
None == <<"<None>">>

\* Truthiness of an Optional[str]: None and '' are falsy.
Truthy(s) == s # None /\ s # <<>>

IsSpace(c) == c \in {" ", "\n"}

RECURSIVE lstrip(_)
lstrip(s) == IF s # <<>> /\ IsSpace(Head(s)) THEN lstrip(Tail(s)) ELSE s

RECURSIVE rstrip(_)
rstrip(s) ==
    IF s # <<>> /\ IsSpace(s[Len(s)]) THEN rstrip(SubSeq(s, 1, Len(s) - 1)) ELSE s

\* str.strip()
strip(s) == rstrip(lstrip(s))

\* str.startswith(c) for a one-character prefix
startswith(s, c) == s # <<>> /\ Head(s) = c

\* c in s
contains(s, c) == \E i \in 1..Len(s) : s[i] = c

\* 1-based str.find(c); 0 when c does not occur
RECURSIVE findFrom(_, _, _)
findFrom(s, c, i) ==
    IF i > Len(s) THEN 0
    ELSE IF s[i] = c THEN i
    ELSE findFrom(s, c, i + 1)

find(s, c) == findFrom(s, c, 1)

\* s.split(c, 1) for s containing c: <<before the first c, after it>>
split1(s, c) ==
    LET i == find(s, c)
    IN  <<SubSeq(s, 1, i - 1), SubSeq(s, i + 1, Len(s))>>

\* Iteration over a text file: the lines, each with its terminating "\n"
\* (the last one possibly without).
RECURSIVE readlines(_)
readlines(text) ==
    IF text = <<>> THEN <<>>
    ELSE LET i == find(text, "\n")
         IN  IF i = 0 THEN <<text>>
             ELSE <<SubSeq(text, 1, i)>> \o readlines(SubSeq(text, i + 1, Len(text)))

----------------------------------------------------------------------------
(* dict helpers *)

EmptyDict == [k \in {} |-> <<>>]

\* d[k] = v
DictSet(d, k, v) == [x \in DOMAIN d \cup {k} |-> IF x = k THEN v ELSE d[x]]

\* d.get(k, default)
DictGet(d, k, default) == IF k \in DOMAIN d THEN d[k] ELSE default

----------------------------------------------------------------------------
(* parse_txt *)

\* Faulty variant of parse_line: a duplicate key keeps its first value
parse_line_first_wins(fields, raw) ==
    LET line == strip(raw)
    IN  IF line = <<>> \/ startswith(line, "#") THEN fields
        ELSE IF contains(line, ":")
             THEN LET kv == split1(line, ":")
                  IN  IF strip(kv[1]) \in DOMAIN fields THEN fields
                      ELSE DictSet(fields, strip(kv[1]), strip(kv[2]))
             ELSE fields

\* body of the loop of parse_txt: one line of the file
parse_line(fields, raw) ==
    LET line == strip(raw)
    IN  IF line = <<>> \/ startswith(line, "#") THEN fields
        ELSE IF contains(line, ":")
             THEN LET kv == split1(line, ":")
                  IN  DictSet(fields, strip(kv[1]), strip(kv[2]))
             ELSE fields

RECURSIVE parse_lines(_, _)
parse_lines(fields, lines) ==
    IF lines = <<>> THEN fields
    ELSE parse_lines(parse_line(fields, Head(lines)), Tail(lines))

\* parse_txt(file_path) on a file system entry: the mapping, or None when the
\* file does not exist or reading it raises.
parse_txt(file) ==
    IF file.state = "missing"
    THEN [none |-> TRUE, fields |-> EmptyDict, log |-> <<"Input file not found">>]
    ELSE IF file.state = "unreadable"
    THEN [none |-> TRUE, fields |-> EmptyDict, log |-> <<"Error parsing TXT file">>]
    ELSE [none |-> FALSE, fields |-> parse_lines(EmptyDict, readlines(file.text)),
          log |-> <<>>]

----------------------------------------------------------------------------
(* load_creds *)

\* Outcomes of a remote call that raises or returns.
\*   "ok"        the call returns
\*   "http_json" HttpError whose content is JSON with error.message
\*   "http_raw"  HttpError whose content is not such JSON (a proxy's HTML page)
\*   "other"     any other exception
ApiOutcomes == {"ok", "http_json", "http_raw", "other"}

Call(op, userKey, status, outcome) ==
    [op |-> op, userKey |-> userKey, status |-> status, outcome |-> outcome]

\* The values of TOKEN_JSON that load_creds tells apart:
\*   "unset"    os.environ['TOKEN_JSON'] raises KeyError
\*   "badjson"  json.loads raises JSONDecodeError
\*   "badinfo"  JSON, but from_authorized_user_info raises ValueError
\*   "valid"    credentials that are not expired
\*   "expired"  expired credentials holding a refresh token
TokenStates == {"unset", "badjson", "badinfo", "valid", "expired"}

\* load_creds(): ret is "creds", "None", or "raise" for an exception that
\* load_creds does not catch (ValueError, RefreshError).
load_creds(token, o) ==
    CASE token = "unset" ->
           [ret |-> "None", calls |-> <<>>,
            log |-> <<"'TOKEN_JSON' environment variable not set">>]
      [] token = "badjson" ->
           [ret |-> "None", calls |-> <<>>,
            log |-> <<"'TOKEN_JSON' contains invalid JSON">>]
      [] token = "badinfo" ->
           [ret |-> "raise", calls |-> <<>>, log |-> <<>>]
      [] token = "valid" ->
           [ret |-> "creds", calls |-> <<>>, log |-> <<>>]
      [] token = "expired" ->
           [ret |-> IF o = "ok" THEN "creds" ELSE "raise",
            calls |-> <<Call("refresh", <<>>, "-", o)>>, log |-> <<>>]

----------------------------------------------------------------------------
(* create_user *)

\* keys of the input record, as parse_txt produces them
K(name) == <<name>>

\* JSON values of the request body, tagged with their Python type
StrVal(s)  == [t |-> "str",  v |-> s]
BoolVal(b) == [t |-> "bool", v |-> b]
DictVal(d) == [t |-> "dict", v |-> d]

\* Python truthiness of a body value
TruthyVal(x) ==
    CASE x.t = "str"  -> x.v # <<>>
      [] x.t = "bool" -> x.v
      [] x.t = "dict" -> DOMAIN x.v # {}

required_fields == {K("primaryEmail"), K("givenName"), K("familyName")}

\* all(field in user_info for field in required_fields)
validate(user_info_) == \A field \in required_fields : field \in DOMAIN user_info_

\* user_body as first built
unfiltered_body(user_info_, pw) ==
    [k \in {"primaryEmail", "name", "password", "changePasswordAtNextLogin",
            "orgUnitPath", "recoveryEmail", "recoveryPhone"} |->
       CASE k = "primaryEmail" -> StrVal(user_info_[K("primaryEmail")])
         [] k = "name" ->
              DictVal([n \in {"givenName", "familyName"} |-> user_info_[K(n)]])
         [] k = "password" -> StrVal(pw)
         [] k = "changePasswordAtNextLogin" -> BoolVal(TRUE)
         [] k = "orgUnitPath" -> StrVal(DictGet(user_info_, K("orgUnitPath"), <<"/">>))
         [] k = "recoveryEmail" -> StrVal(DictGet(user_info_, K("recoveryEmail"), <<>>))
         [] k = "recoveryPhone" -> StrVal(DictGet(user_info_, K("recoveryPhone"), <<>>))]

\* Faulty variant of remove_empty: every entry is kept
remove_empty_keeps_all(body) == body

\* {k: v for k, v in user_body.items() if v}
remove_empty(body) == [k \in {x \in DOMAIN body : TruthyVal(body[x])} |-> body[k]]

user_body(user_info_, pw) == remove_empty(unfiltered_body(user_info_, pw))

\* The directory service: it can only answer with the created user's
\* primaryEmail when the request names one.
InsertOutcomes(body) ==
    IF "primaryEmail" \in DOMAIN body THEN ApiOutcomes ELSE ApiOutcomes \ {"ok"}

\* create_user(service, user_info) with temp_password pw drawn by random.choices
\* and o the outcome of users().insert(...).execute().  raised: an exception
\* leaves create_user (raised inside the HttpError handler).
create_user(user_info_, pw, o) ==
    IF ~validate(user_info_)
    THEN [primary_email |-> None, temp_password |-> None, raised |-> FALSE,
          calls |-> <<>>, submitted |-> <<>>,
          log |-> <<"Missing essential user information">>]
    ELSE LET body == user_body(user_info_, pw)
             call == <<Call("insert", user_info_[K("primaryEmail")], "-", o)>>
         IN  CASE o = "ok" ->
                    [primary_email |-> body["primaryEmail"].v, temp_password |-> pw,
                     raised |-> FALSE, calls |-> call, submitted |-> <<body>>,
                     log |-> <<"Creating user", "Successfully created user">>]
               [] o = "http_json" ->
                    [primary_email |-> None, temp_password |-> None,
                     raised |-> FALSE, calls |-> call, submitted |-> <<body>>,
                     log |-> <<"Creating user", "API Error">>]
               [] o = "http_raw" ->
                    [primary_email |-> None, temp_password |-> None,
                     raised |-> TRUE, calls |-> call, submitted |-> <<body>>,
                     log |-> <<"Creating user">>]
               [] o = "other" ->
                    [primary_email |-> None, temp_password |-> None,
                     raised |-> FALSE, calls |-> call, submitted |-> <<body>>,
                     log |-> <<"Creating user", "Unexpected error creating user">>]

----------------------------------------------------------------------------
(* trigger_password_reset *)

\* trigger_password_reset(service, email); o1, o2 are the outcomes of the two
\* makeAdmin calls.  ret is "True", "False", or "raise" when the HttpError
\* handler itself raises.
trigger_password_reset(email, o1, o2) ==
    LET grant  == Call("makeAdmin", email, "True", o1)
        revoke == Call("makeAdmin", email, "False", o2)
        made   == IF o1 = "ok" THEN <<grant, revoke>> ELSE <<grant>>
        o      == IF o1 = "ok" THEN o2 ELSE o1
    IN  CASE o = "ok" ->
               [ret |-> "True", calls |-> made,
                log |-> <<"Triggering password reset",
                          "Password reset triggered successfully">>]
          [] o = "http_json" ->
               [ret |-> "False", calls |-> made,
                log |-> <<"Triggering password reset", "API Error triggering reset">>]
          [] o = "http_raw" ->
               [ret |-> "raise", calls |-> made,
                log |-> <<"Triggering password reset">>]
          [] o = "other" ->
               [ret |-> "False", calls |-> made,
                log |-> <<"Triggering password reset",
                          "Error triggering password reset">>]

----------------------------------------------------------------------------
(* send_custom_welcome_email *)

WelcomeTemplate == "templates/welcome_email_template.html"
TempPasswordTemplate == "templates/temp_password_email.html"

\* Outcomes of the SMTP session: which step raises, if any.
SmtpOutcomes == {"connect_fail", "login_fail", "send_fail", "ok"}

\* send_custom_welcome_email, lines 112-114: the template that fits the email
template_for(pw) == IF Truthy(pw) THEN TempPasswordTemplate ELSE WelcomeTemplate

\* The rendered message: the template and the values substituted into it.
\* tempPassword is None when ${tempPassword} is not substituted.
render(template, given_name, primary_email_, pw) ==
    [template |-> template, givenName |-> given_name,
     primaryEmail |-> primary_email_,
     tempPassword |-> IF Truthy(pw) THEN pw ELSE None]

smtp_calls(to_email, o) ==
    CASE o = "connect_fail" -> <<Call("smtp_connect", <<>>, "-", "other")>>
      [] o = "login_fail" ->
           <<Call("smtp_connect", <<>>, "-", "ok"), Call("smtp_login", <<>>, "-", "other")>>
      [] o = "send_fail" ->
           <<Call("smtp_connect", <<>>, "-", "ok"), Call("smtp_login", <<>>, "-", "ok"),
             Call("sendmail", to_email, "-", "other")>>
      [] o = "ok" ->
           <<Call("smtp_connect", <<>>, "-", "ok"), Call("smtp_login", <<>>, "-", "ok"),
             Call("sendmail", to_email, "-", "ok")>>

\* send_custom_welcome_email(to_email, primary_email, given_name, temp_password)
\* env is os.environ, templates the template files that exist, o the outcome
\* of the SMTP session.
send_custom_welcome_email(to_email, primary_email_, given_name, pw, env, templates, o) ==
    LET template_file == template_for(pw)
    IN  IF template_file \notin templates
        THEN [ret |-> FALSE, calls |-> <<>>, sent |-> <<>>,
              log |-> <<"Email template not found">>]
        ELSE IF ~(env.EMAIL_SMTP_USER /\ env.EMAIL_SMTP_PASS)
        THEN [ret |-> FALSE, calls |-> <<>>, sent |-> <<>>,
              log |-> <<"SMTP credentials not set - skipping email">>]
        ELSE [ret |-> o = "ok", calls |-> smtp_calls(to_email, o),
              sent |-> IF o = "ok"
                       THEN <<[to |-> to_email,
                               msg |-> render(template_file, given_name,
                                              primary_email_, pw)]>>
                       ELSE <<>>,
              log |-> IF o = "ok" THEN <<"Sent welcome instructions">>
                      ELSE <<"Error sending welcome email">>]

----------------------------------------------------------------------------
(* The environment a run starts in *)

\* Input texts of the parser specification: every text over the tokens the
\* parser tells apart, up to MaxFileLen tokens.
ParseAlphabet == {" ", "\n", "#", ":", "a"}

RECURSIVE TextsUpTo(_)
TextsUpTo(n) ==
    IF n = 0 THEN {<<>>}
    ELSE LET shorter == TextsUpTo(n - 1)
         IN  shorter \cup {Append(t, c) : t \in {x \in shorter : Len(x) = n - 1},
                                          c \in ParseAlphabet}

\* One line "key: value" of an input file, or "key:" for an empty value.
FieldLine(key, value) ==
    IF value = <<>> THEN <<key, ":", "\n">> ELSE <<key, ":", " ">> \o value \o <<"\n">>

\* What an input file may say about a key: nothing, or one of the values.
FieldOptions(key, values) == {<<>>} \cup {FieldLine(key, v) : v \in values}

\* Input texts of the pipeline specification: records over the recognized
\* keys, each key absent, empty or set.
RecordTexts ==
    {pe \o gn \o fn \o ou \o re \o rp \o ec :
        pe \in FieldOptions("primaryEmail", {<<>>, <<"a@x.com">>}),
        gn \in FieldOptions("givenName", {<<>>, <<"Ana">>}),
        fn \in FieldOptions("familyName", {<<"Lee">>}),
        ou \in FieldOptions("orgUnitPath", {<<>>, <<"/Sales">>}),
        re \in FieldOptions("recoveryEmail", {<<>>, <<"r@y.com">>}),
        rp \in FieldOptions("recoveryPhone", {<<"+1555">>}),
        ec \in FieldOptions("EmailToSendCred", {<<>>, <<"a@x.com">>, <<"notify@x.com">>})}

\* The input file as main finds it: TXT_FILE unset or empty, or naming a
\* file that is missing, unreadable, or holds a text.
InputStates == {"unset", "empty", "missing", "unreadable", "ok"}

PasswordPool == <<"pw1", "pw2", "pw3", "pw4", "pw5">>

\* Values random.choices may return for the temporary password.
PasswordChoices == {<<PasswordPool[i]>> : i \in 1..NumPasswords}

InitWith(texts, tokens, flags, templateSets) ==
    /\ \E input \in InputStates, text \in texts :
          /\ input # "ok" => text = <<>>
          /\ \E token \in tokens, user \in flags, pass \in flags :
                environ = [TXT_FILE |-> IF input \in {"unset", "empty"} THEN input ELSE "set",
                           TOKEN_JSON |-> token,
                           EMAIL_SMTP_USER |-> user,
                           EMAIL_SMTP_PASS |-> pass]
          /\ \E templates \in templateSets :
                fs = [input |-> [state |-> IF input \in {"unset", "empty"}
                                           THEN "missing" ELSE input,
                                 text |-> text],
                      templates |-> templates]
    /\ pc = "ParseInput"
    /\ user_info = EmptyDict
    /\ creds = "None"
    /\ primary_email = None
    /\ temp_password = None
    /\ reset_success = "None"
    /\ calls = <<>>
    /\ submitted = <<>>
    /\ sent = <<>>
    /\ log = <<"--- Google Workspace User Provisioning Started ---">>

AllTemplates == {WelcomeTemplate, TempPasswordTemplate}

Init == InitWith(RecordTexts, TokenStates, BOOLEAN, SUBSET AllTemplates)

\* The parser specification varies the input alone.
InitParse == InitWith(TextsUpTo(MaxFileLen), {"valid"}, {TRUE}, {AllTemplates})

----------------------------------------------------------------------------
(* main *)

Completed == "--- Process Completed ---"

\* Faulty variant of ParseInput: a failed or empty parse does not end the run
ParseInputNoHalt ==
    /\ pc = "ParseInput"
    /\ IF environ.TXT_FILE \in {"unset", "empty"}
       THEN /\ log' = log \o <<"'TXT_FILE' environment variable not set">>
            /\ pc' = "Failed"
            /\ UNCHANGED user_info
       ELSE LET r == parse_txt(fs.input)
            IN  /\ log' = log \o r.log
                /\ user_info' = r.fields
                /\ pc' = "Authenticate"
    /\ UNCHANGED <<environ, fs, creds, primary_email, temp_password, reset_success,
                   calls, submitted, sent>>

\* main, lines 188-196: read TXT_FILE and parse the input file.
ParseInput ==
    /\ pc = "ParseInput"
    /\ IF environ.TXT_FILE \in {"unset", "empty"}
       THEN /\ log' = log \o <<"'TXT_FILE' environment variable not set">>
            /\ pc' = "Failed"
            /\ UNCHANGED user_info
       ELSE LET r == parse_txt(fs.input)
            IN  /\ log' = log \o r.log
                /\ user_info' = r.fields
                /\ pc' = IF r.none \/ DOMAIN r.fields = {} THEN "Failed"
                         ELSE "Authenticate"
    /\ UNCHANGED <<environ, fs, creds, primary_email, temp_password, reset_success,
                   calls, submitted, sent>>

\* main, lines 198-200: load the credentials.
Authenticate ==
    /\ pc = "Authenticate"
    /\ \E o \in {"ok", "other"} :
          LET r == load_creds(environ.TOKEN_JSON, o)
          IN  /\ calls' = calls \o r.calls
              /\ log' = log \o r.log
              /\ creds' = IF r.ret = "creds" THEN "creds" ELSE "None"
              /\ pc' = IF r.ret = "creds" THEN "Provision" ELSE "Failed"
    /\ UNCHANGED <<environ, fs, user_info, primary_email, temp_password,
                   reset_success, submitted, sent>>

\* Outcomes of users().insert for the record; when create_user rejects the
\* record no call is made and the outcome is not consulted.
ProvisionOutcomes(user_info_, pw) ==
    IF validate(user_info_) THEN InsertOutcomes(user_body(user_info_, pw))
    ELSE {"other"}

\* main, lines 202-206 and 237-243: build the service and create the user.
Provision ==
    /\ pc = "Provision"
    /\ \/ \* build(...) raises
          /\ log' = log \o <<"Fatal error", Completed>>
          /\ pc' = "Failed"
          /\ UNCHANGED <<primary_email, temp_password, calls, submitted>>
       \/ \E pw \in PasswordChoices :
          \E o \in ProvisionOutcomes(user_info, pw) :
             LET r == create_user(user_info, pw, o)
             IN  /\ calls' = calls \o r.calls
                 /\ submitted' = submitted \o r.submitted
                 /\ primary_email' = r.primary_email
                 /\ temp_password' = r.temp_password
                 /\ IF r.raised
                    THEN /\ log' = log \o r.log \o <<"Fatal error", Completed>>
                         /\ pc' = "Failed"
                    ELSE IF Truthy(r.primary_email)
                    THEN /\ log' = log \o r.log
                         /\ pc' = "Notify"
                    ELSE /\ log' = log \o r.log
                                   \o <<"User creation failed - no further actions",
                                        Completed>>
                         /\ pc' = "Failed"
    /\ UNCHANGED <<environ, fs, user_info, creds, reset_success, sent>>

\* main, line 216: the address handed to trigger_password_reset
reset_target(user_info_, primary_email_) ==
    DictGet(user_info_, K("EmailToSendCred"), None)

\* main, lines 207-216: find the recipient and trigger the password reset.
Notify ==
    /\ pc = "Notify"
    /\ LET notification_email == DictGet(user_info, K("EmailToSendCred"), None)
       IN  IF ~Truthy(notification_email)
           THEN /\ log' = log \o <<"'EmailToSendCred' not found in TXT file", Completed>>
                /\ pc' = "Failed"
                /\ UNCHANGED <<calls, reset_success>>
           ELSE \E o1 \in ApiOutcomes :
                \E o2 \in IF o1 = "ok" THEN ApiOutcomes ELSE {"ok"} :
                   LET r == trigger_password_reset(
                                reset_target(user_info, primary_email), o1, o2)
                   IN  /\ calls' = calls \o r.calls
                       /\ IF r.ret = "raise"
                          THEN /\ log' = log \o r.log \o <<"Fatal error", Completed>>
                               /\ pc' = "Failed"
                               /\ UNCHANGED reset_success
                          ELSE /\ log' = log \o r.log
                               /\ reset_success' = r.ret
                               /\ pc' = "SendEmail"
    /\ UNCHANGED <<environ, fs, user_info, creds, primary_email, temp_password,
                   submitted, sent>>

\* Faulty variant of email_password: the password is passed in both branches
email_password_always(reset_success_, temp_password_) == temp_password_

\* main, lines 219-234: the temp_password argument of send_custom_welcome_email
email_password(reset_success_, temp_password_) ==
    IF reset_success_ = "True" THEN None ELSE temp_password_

\* main, lines 218-236: send the email that fits the outcome of the reset.
SendEmail ==
    /\ pc = "SendEmail"
    /\ \E o \in SmtpOutcomes :
          LET notification_email == DictGet(user_info, K("EmailToSendCred"), None)
              given_name == DictGet(user_info, K("givenName"), <<"User">>)
              r == send_custom_welcome_email(
                       notification_email, primary_email, given_name,
                       email_password(reset_success, temp_password),
                       environ, fs.templates, o)
          IN  /\ calls' = calls \o r.calls
              /\ sent' = sent \o r.sent
              /\ log' = log
                        \o (IF reset_success = "True" THEN <<>>
                            ELSE <<"Using fallback method with temporary password">>)
                        \o r.log \o <<"Provisioning completed", Completed>>
              /\ pc' = "Done"
    /\ UNCHANGED <<environ, fs, user_info, creds, primary_email, temp_password,
                   reset_success, submitted>>

Next == ParseInput \/ Authenticate \/ Provision \/ Notify \/ SendEmail

Spec == Init /\ [][Next]_vars

\* The parser on every short input text.
NextParse == ParseInput

SpecParse == InitParse /\ [][NextParse]_vars

----------------------------------------------------------------------------
(* Vocabulary of the properties *)

CallsWhere(P(_)) == {i \in 1..Len(calls) : P(calls[i])}

IsInsert(c)      == c.op = "insert"
IsRefresh(c)     == c.op = "refresh"
IsMakeAdmin(c)   == c.op = "makeAdmin"
IsSmtp(c)        == c.op \in {"smtp_connect", "smtp_login", "sendmail"}
IsNotifyCall(c)  == IsMakeAdmin(c) \/ IsSmtp(c)

Terminated == pc \in {"Done", "Failed"}

Logged(m) == \E i \in 1..Len(log) : log[i] = m

\* The record names the field and gives it a non-empty value.
PresentNonEmpty(name) == K(name) \in DOMAIN user_info /\ user_info[K(name)] # <<>>

RequiredNames == {"primaryEmail", "givenName", "familyName"}

InsertSucceeded == \E i \in CallsWhere(IsInsert) : calls[i].outcome = "ok"

SmtpCredentialsSet == environ.EMAIL_SMTP_USER /\ environ.EMAIL_SMTP_PASS

----------------------------------------------------------------------------
(* C1 *)

\* C1: users().insert is called only if every required field (primaryEmail,
\* givenName, familyName) is present in the record with a non-empty value;
\* otherwise create_user returns (None, None) and no insert call is made.
C1_InsertOnlyIfRequiredNonEmpty ==
    (\E name \in RequiredNames : ~PresentNonEmpty(name))
        => /\ CallsWhere(IsInsert) = {}
           /\ primary_email = None
           /\ temp_password = None

----------------------------------------------------------------------------
(* C2 *)

OptionalNames == {"orgUnitPath", "recoveryEmail", "recoveryPhone"}

\* A top-level entry of a request body is empty: '' or {}.
EmptyEntry(x) == (x.t = "str" /\ x.v = <<>>) \/ (x.t = "dict" /\ DOMAIN x.v = {})

\* C2 as claimed: an optional field absent from the record is absent from
\* the submitted body, and no entry of the body is empty.
C2_AbsentOptionalOmitted ==
    \A i \in 1..Len(submitted) :
        /\ \A name \in OptionalNames :
              K(name) \notin DOMAIN user_info => name \notin DOMAIN submitted[i]
        /\ \A k \in DOMAIN submitted[i] : ~EmptyEntry(submitted[i][k])

\* C2 amended: recoveryEmail and recoveryPhone absent from the record are
\* absent from the submitted body; orgUnitPath absent from the record is
\* submitted with the default "/"; no top-level entry of the body is empty.
C2_AbsentOptionalOmittedOrDefault ==
    \A i \in 1..Len(submitted) :
        /\ \A name \in {"recoveryEmail", "recoveryPhone"} :
              K(name) \notin DOMAIN user_info => name \notin DOMAIN submitted[i]
        /\ K("orgUnitPath") \notin DOMAIN user_info
              => /\ "orgUnitPath" \in DOMAIN submitted[i]
                 /\ submitted[i]["orgUnitPath"].v = <<"/">>
        /\ \A k \in DOMAIN submitted[i] : ~EmptyEntry(submitted[i][k])

\* A body was submitted for a record that names none of the optional fields.
C2_Witness ==
    /\ Len(submitted) = 1
    /\ \A name \in OptionalNames : K(name) \notin DOMAIN user_info
    /\ DOMAIN submitted[1] = {"primaryEmail", "name", "password",
                              "changePasswordAtNextLogin", "orgUnitPath"}

----------------------------------------------------------------------------
(* C3 *)

\* The orchestrator state of the specification that a position of main is in.
Stage(p) == IF p = "SendEmail" THEN "Notify" ELSE p

StageSuccessor ==
    {<<"ParseInput", "Authenticate">>, <<"Authenticate", "Provision">>,
     <<"Provision", "Notify">>, <<"Notify", "Notify">>, <<"Notify", "Done">>}

C3_StepInOrder ==
    /\ ~Terminated
    /\ \/ pc' = "Failed"
       \/ <<Stage(pc), Stage(pc')>> \in StageSuccessor

C3_CallsInOrder ==
    \* a step is entered only when the step before it succeeded
    /\ pc = "Authenticate" => DOMAIN user_info # {}
    /\ pc = "Provision" => DOMAIN user_info # {} /\ creds = "creds"
    /\ pc \in {"Notify", "SendEmail", "Done"} => InsertSucceeded /\ Truthy(primary_email)
    \* load_creds only after a parse that gave a non-empty record
    /\ (pc \notin {"ParseInput"} /\ DOMAIN user_info = {}) => calls = <<>> /\ pc = "Failed"
    /\ CallsWhere(IsRefresh) # {} => DOMAIN user_info # {}
    \* insert only after parsing and credential loading succeeded
    /\ CallsWhere(IsInsert) # {} => DOMAIN user_info # {} /\ creds = "creds"
    \* notification actions only after a successful insert
    /\ \A i \in CallsWhere(IsNotifyCall) :
          \E j \in CallsWhere(IsInsert) : j < i /\ calls[j].outcome = "ok"
    \* nothing is retried
    /\ \A i, j \in 1..Len(calls) :
          (calls[i].op = calls[j].op /\ calls[i].status = calls[j].status) => i = j
    \* nothing is rolled back: the only directory calls are insert and makeAdmin
    /\ \A i \in 1..Len(calls) :
          calls[i].op \in {"refresh", "insert", "makeAdmin",
                           "smtp_connect", "smtp_login", "sendmail"}

\* C3: the steps run in the order ParseInput, Authenticate, Provision, Notify,
\* Done; a failing step ends the run in Failed; load_creds is not called after
\* a failed or empty parse, insert not without parse and credentials, no
\* notification action without a successful insert; nothing is retried or
\* rolled back.
C3_FailFastOrder == [](C3_CallsInOrder) /\ [][C3_StepInOrder]_vars

\* A run that went through every step.
C3_Witness ==
    /\ pc = "Done"
    /\ InsertSucceeded
    /\ CallsWhere(IsMakeAdmin) # {}
    /\ Len(sent) = 1

----------------------------------------------------------------------------
(* C4 *)

ConfigurationErrorLogged ==
    \/ Logged("'TXT_FILE' environment variable not set")
    \/ Logged("'TOKEN_JSON' environment variable not set")
    \/ Logged("'TOKEN_JSON' contains invalid JSON")

InputErrorLogged == Logged("Input file not found")

ValidationErrorLogged == Logged("Missing essential user information")

\* C4: a run that ends because of a configuration, input or validation error
\* has made no remote call, the token refresh of load_creds included.
C4_NoRemoteCallBeforeAbort ==
    (pc = "Failed" /\ (ConfigurationErrorLogged \/ InputErrorLogged
                       \/ ValidationErrorLogged))
        => calls = <<>>

----------------------------------------------------------------------------
(* C5 *)

\* Every required field of the record has a non-empty value.
WellFormedRecord == \A name \in RequiredNames : PresentNonEmpty(name)

\* The record is well formed and names a recipient, and the template of
\* either email exists.
NotifierInputsPresent ==
    /\ WellFormedRecord
    /\ PresentNonEmpty("EmailToSendCred")
    /\ fs.templates = AllTemplates

\* C5: when create-user succeeded and the SMTP credentials are not set, the
\* run ends with the skip logged, no SMTP connection, no email sent, and the
\* "Provisioning completed" report.
C5_SoftFailureWithoutSmtpCredentials ==
    (Terminated /\ InsertSucceeded /\ ~SmtpCredentialsSet /\ NotifierInputsPresent)
        => /\ Logged("SMTP credentials not set - skipping email")
           /\ CallsWhere(IsSmtp) = {}
           /\ sent = <<>>
           /\ pc = "Done"
           /\ Logged("Provisioning completed")

----------------------------------------------------------------------------
(* C6 *)

\* The directory service and the mail relay did what the run asked of them,
\* as far as it asked.
C6_AtMostOnce ==
    /\ Cardinality(CallsWhere(IsInsert)) <= 1
    /\ Len(sent) <= 1

\* C6: insert is never called twice nor two emails sent; and a run in which
\* parsing, authentication and create-user succeed and the mail transport is
\* available ends in Done with exactly one insert call and exactly one
\* email, sent to EmailToSendCred, whether the reset trigger succeeds or not.
C6_ExactlyOneCreateAndOneEmail ==
    /\ C6_AtMostOnce
    /\ (Terminated /\ InsertSucceeded /\ SmtpCredentialsSet /\ NotifierInputsPresent
        /\ \A i \in CallsWhere(IsSmtp) : calls[i].outcome = "ok")
          => /\ pc = "Done"
             /\ Cardinality(CallsWhere(IsInsert)) = 1
             /\ Len(sent) = 1
             /\ sent[1].to = user_info[K("EmailToSendCred")]

----------------------------------------------------------------------------
(* C7 *)

Least(S) == CHOOSE x \in S : \A y \in S : x <= y
Greatest(S) == CHOOSE x \in S : \A y \in S : y <= x

\* s without the whitespace before its first and after its last
\* non-whitespace token.
Trimmed(s) ==
    LET solid == {k \in 1..Len(s) : ~IsSpace(s[k])}
    IN  IF solid = {} THEN <<>> ELSE SubSeq(s, Least(solid), Greatest(solid))

\* The lines of a text are its maximal pieces without "\n", each given by
\* the positions <<a, b>> of the breaks around it (the piece after a final
\* "\n" is empty, hence blank).
LineBreaks(text) == {0, Len(text) + 1} \cup {i \in 1..Len(text) : text[i] = "\n"}

LinesOf(text) ==
    {l \in LineBreaks(text) \X LineBreaks(text) :
        l[1] < l[2] /\ \A k \in (l[1] + 1)..(l[2] - 1) : text[k] # "\n"}

LineText(text, l) == Trimmed(SubSeq(text, l[1] + 1, l[2] - 1))

Colons(t) == {k \in 1..Len(t) : t[k] = ":"}

\* A line counts when, trimmed, it is not empty, does not start with "#" and
\* holds a ":".
Counts(t) == t # <<>> /\ t[1] # "#" /\ Colons(t) # {}

KeyOf(t)   == Trimmed(SubSeq(t, 1, Least(Colons(t)) - 1))
ValueOf(t) == Trimmed(SubSeq(t, Least(Colons(t)) + 1, Len(t)))

\* The input file was read and parsed.
Parsed == pc # "ParseInput" /\ environ.TXT_FILE = "set" /\ fs.input.state = "ok"

\* C7: the mapping parse_txt returns has exactly the keys of the non-blank,
\* non-comment lines with a separator, each key with the trimmed value of the
\* last line that gives it, the line cut at its first ":"; no parseable line
\* gives the empty mapping.
C7_ParseTxt ==
    Parsed =>
        LET text     == fs.input.text
            counting == {l \in LinesOf(text) : Counts(LineText(text, l))}
            giving(key) == {l \in counting : KeyOf(LineText(text, l)) = key}
        IN  /\ DOMAIN user_info = {KeyOf(LineText(text, l)) : l \in counting}
            /\ \A key \in DOMAIN user_info :
                  LET last == CHOOSE l \in giving(key) :
                                  \A m \in giving(key) : m[1] <= l[1]
                  IN  user_info[key] = ValueOf(LineText(text, last))
            /\ counting = {} => user_info = EmptyDict

\* Two lines give the same key; the second value, holding a ":", is kept.
C7_Witness ==
    /\ Parsed
    /\ fs.input.text = <<"a", ":", "\n", "a", ":", ":">>
    /\ user_info = [k \in {<<"a">>} |-> <<":">>]

----------------------------------------------------------------------------
(* C8 *)

\* C8: when the run has ended, every successful makeAdmin(status=True) is
\* followed by a successful makeAdmin(status=False) for the same userKey.
C8_AdminGrantRevoked ==
    (Terminated /\ WellFormedRecord) =>
        \A i \in CallsWhere(IsMakeAdmin) :
            (calls[i].status = "True" /\ calls[i].outcome = "ok")
                => \E j \in CallsWhere(IsMakeAdmin) :
                      /\ j > i
                      /\ calls[j].status = "False"
                      /\ calls[j].outcome = "ok"
                      /\ calls[j].userKey = calls[i].userKey

----------------------------------------------------------------------------
(* C9 *)

\* C9: every makeAdmin call names the account that users().insert returned.
C9_AdminOnlyOnCreatedAccount ==
    WellFormedRecord =>
        \A i \in CallsWhere(IsMakeAdmin) :
            /\ InsertSucceeded
            /\ calls[i].userKey = primary_email

----------------------------------------------------------------------------
(* C10 *)

EmailHasPassword(m) == m.msg.tempPassword # None

\* C10: an email carries the temporary password only when
\* trigger_password_reset returned False; when it returned True the email is
\* the welcome template without a password; a password that is emailed is
\* the one submitted to users().insert.
C10_PasswordOnlyOnFallback ==
    \A i \in 1..Len(sent) :
        /\ EmailHasPassword(sent[i])
              => /\ reset_success = "False"
                 /\ Len(submitted) = 1
                 /\ sent[i].msg.tempPassword = submitted[1]["password"].v
        /\ reset_success = "True"
              => /\ sent[i].msg.template = WelcomeTemplate
                 /\ ~EmailHasPassword(sent[i])

\* The fallback email, carrying the password, was sent.
C10_Witness ==
    /\ Len(sent) = 1
    /\ EmailHasPassword(sent[1])
    /\ sent[1].msg.template = TempPasswordTemplate

====
